---- MODULE Spec2Model ----
(***************************************************************************)
(* Linf PGD attack (src/src/attack.py) and the feature-matching            *)
(* adversarial trainer (src/src/trainer/robust_plus_regularization_trainer *)
(* /robust_plus_fm_trainer.py) as one state machine.                       *)
(*                                                                         *)
(* A run is one of the two entry points: RobustPlusFeatureMatchingTrainer  *)
(* .train (prog = "train") or test_attack (prog = "test_attack").  Tensors *)
(* are followed through one representative element: every tensor           *)
(* operation of calc_perturbation is elementwise with per-channel          *)
(* parameters, so an element is its value and its channel ch.  The model's *)
(* forward and backward passes are inputs: the sign of the input gradient  *)
(* is drawn from {-1, 0, 1}, and a forward pass may raise.                 *)
(* Values are integers on the raw pixel scale ClipMinRaw..ClipMaxRaw.      *)
(*                                                                         *)
(* Spec is one run of an entry point on constructed objects; SpecCaller     *)
(* lets the caller call train() again after an error; SpecResume lets the  *)
(* process be stopped between batch steps and restarted from the epoch     *)
(* checkpoint; SpecConstruct is the two constructors on their own.         *)
(***************************************************************************)
EXTENDS Integers, Sequences, FiniteSets

VARIABLES
    prog,            \* entry point of the run
    pc,              \* position in the code
    err,             \* "none", or the place an uncaught error was raised
    random_init,     \* LinfPGDAttack.random_init
    num_steps,       \* LinfPGDAttack.num_steps
    batch_number,    \* len(self._train_loader)
    ep,              \* train: epoch loop variable
    index,           \* train: enumerate index of the batch in the epoch
    batchNo,         \* serial number of the current step_batch call
    log,             \* history: batch steps, evaluations, checkpoints
    training,        \* model.training
    reqGrad,         \* p.requires_grad of every model parameter
    grad,            \* p.grad of every model parameter: "zero" or "set"
    weights,         \* version of the parameter values
    hooked,          \* self._hooked_features_list
    pair,            \* (r_adv, r_clean) as read by step_batch
    readLen,         \* history: length of the buffer when it was read
    ch,              \* channel of the followed element
    x,               \* calc_perturbation's x (the followed element)
    xt,              \* calc_perturbation's xt
    xtReqGrad,       \* xt.requires_grad
    it,              \* calc_perturbation's loop variable
    gradsZeroAtCall, \* history: all p.grad were zero when calc_perturbation was entered
    tIndex,          \* test_attack: batches of test_loader done
    retries,         \* train() calls made again after an abort
    best_robustness, \* train: best_robustness
    robust_acc,      \* self._robust_acc
    start_epoch,     \* self.start_epoch
    best_acc,        \* self.best_acc
    ckpt,            \* the epoch checkpoint on disk: epoch 0 when there is none
    interrupts,      \* times the process was stopped and restarted from ckpt
    trace,           \* history: the operations of the current step_batch call
    constSign,       \* history: the one gradient sign of all iterations so
                     \* far, or that there was none yet, or that two differed
    dataset,         \* index of dataset_name in the statistics table
    k,               \* block index the trainer is constructed with
    total_blocks,    \* self._blocks.get_total_blocks()
    hooks,           \* blocks carrying a registered forward callback
    atk              \* attributes of the constructed LinfPGDAttack

vars == <<prog, pc, err, random_init, num_steps, batch_number, ep, index, batchNo,
          log, training, reqGrad, grad, weights, hooked, pair,
          readLen, ch, x, xt, xtReqGrad, it, gradsZeroAtCall, tIndex, retries,
          best_robustness, robust_acc, start_epoch, best_acc, ckpt, interrupts,
          trace, constSign, dataset, k, total_blocks, hooks, atk>>

\* ---------------------------------------------------------------- bounds
MaxSteps == 3
MaxBatches == 2
TrainEpochs == 2
NumTestBatches == 1
NumParams == 2
MaxRetries == 1
MaxBlocks == 3
WarmUpEpochs == 1
MaxInterrupts == 1

\* ------------------------------------------------- attack configuration
ClipMinRaw == 0
ClipMaxRaw == 12
EpsRaw == 4
StepRaw == 2

Channels == 1..3
Params == 1..NumParams

\* get_mean_and_std(dataset_name): per-channel statistics on the raw scale
DatasetMean == <<4, 4, 2>>
DatasetStd == <<1, 2, 2>>

\* (clip - mean) / std
NormBound(raw, c) == (raw - DatasetMean[c]) \div DatasetStd[c]
\* epsilon / std, step_size / std
NormMagnitude(raw, c) == raw \div DatasetStd[c]

AttackMin(c) == NormBound(ClipMinRaw, c)
AttackMax(c) == NormBound(ClipMaxRaw, c)
Epsilon(c) == NormMagnitude(EpsRaw, c)
StepSize(c) == NormMagnitude(StepRaw, c)

\* utils.clamp(input, min, max), elementwise
clamp(v, lo, hi) == IF v < lo THEN lo ELSE IF v > hi THEN hi ELSE v

\* ------------------------------------------------ LinfPGDAttack.__init__
\* the statistics of a dataset whose second channel is constant
ConstantChannelStd == <<1, 0, 2>>

\* get_mean_and_std(dataset_name) for the dataset names a run may be given
DatasetStats ==
    << [mean |-> DatasetMean, std |-> DatasetStd],
       [mean |-> DatasetMean, std |-> ConstantChannelStd] >>

Datasets == 1..Len(DatasetStats)

\* torch's elementwise float division: a zero divisor raises nothing
TensorDiv(a, b) ==
    IF b # 0 THEN a \div b
    ELSE IF a > 0 THEN "inf" ELSE IF a < 0 THEN "-inf" ELSE "nan"

Finite(v) == v \in Int

\* lines 33-50: the attributes __init__ leaves on the object
NewAttack(d, ns, ri) ==
    LET mean == DatasetStats[d].mean
        std == DatasetStats[d].std
    IN [ clip_min |-> [c \in Channels |-> TensorDiv(ClipMinRaw - mean[c], std[c])],
         clip_max |-> [c \in Channels |-> TensorDiv(ClipMaxRaw - mean[c], std[c])],
         epsilon |-> [c \in Channels |-> TensorDiv(EpsRaw, std[c])],
         step_size |-> [c \in Channels |-> TensorDiv(StepRaw, std[c])],
         num_steps |-> ns,
         random_init |-> ri ]

NoAttack == [num_steps |-> "unset"]

\* ---------------------------- _register_forward_hook_to_k_block, line 135
BlockIndexValid(kk, total) == 1 <= kk /\ kk <= total

\* line 140: blocks are counted from the output end
HookedBlockFromInput(kk, total) == kk
HookedBlock(kk, total) == total - kk + 1

\* delta.uniform_(-1, 1); delta * self.epsilon: a value of [-epsilon, epsilon)
RandomDeltas(c) == (0 - Epsilon(c))..(Epsilon(c) - 1)

\* delta = zeros_like(x); if self.random_init: delta = self.random_delta(delta)
InitialDeltasAlwaysRandom(ri, c) == RandomDeltas(c)
InitialDeltas(ri, c) == IF ri # 0 THEN RandomDeltas(c) ELSE {0}

\* lines 73-75 on one element: signed step, projection on the epsilon ball
\* around x, clamp into [min, max]
PgdStepNoProjection(xv, xtv, s, c) ==
    clamp(xtv + StepSize(c) * s, AttackMin(c), AttackMax(c))
PgdStepBallLast(xv, xtv, s, c) ==
    LET stepped == xtv + StepSize(c) * s
        inRange == clamp(stepped, AttackMin(c), AttackMax(c))
    IN  clamp(inRange - xv, 0 - Epsilon(c), Epsilon(c)) + xv
PgdStep(xv, xtv, s, c) ==
    LET stepped == xtv + StepSize(c) * s
        inBall == clamp(stepped - xv, 0 - Epsilon(c), Epsilon(c)) + xv
    IN  clamp(inBall, AttackMin(c), AttackMax(c))

\* xt.data = ...: xt owns the storage allocated by x + delta, x is not written
WriteXtDataAliased(xv, newXt) == [x |-> newXt, xt |-> newXt]
WriteXtData(xv, newXt) == [x |-> xv, xt |-> newXt]

\* values a batch element takes: inside, on and outside the clip range
Inputs(c) == { AttackMin(c) - Epsilon(c) - 1, AttackMin(c),
               (AttackMin(c) + AttackMax(c)) \div 2,
               AttackMax(c), AttackMax(c) + 1 }

\* ------------------------------------------------------ model and trainer
\* the forward hook is registered by the trainer's constructor only
HookRegistered(pg) == pg = "train"

Capture(kind, b) == [kind |-> kind, batch |-> b]

\* _get_layer_inputs: append the block's input while the model is training
GetLayerInputsUnguarded(buf, isTraining, cap) == Append(buf, cap)
GetLayerInputs(buf, isTraining, cap) ==
    IF isTraining THEN Append(buf, cap) ELSE buf

\* self.model(...) as far as the hook buffer is concerned
ForwardHook(pg, buf, isTraining, cap) ==
    IF HookRegistered(pg) THEN GetLayerInputs(buf, isTraining, cap) ELSE buf

\* _freeze_trainable_parameters / _unfreeze_trainable_parameters
FreezeFirstOnly(rg) == [p \in Params |-> IF p = 1 THEN FALSE ELSE rg[p]]
FreezeTrainableParameters(rg) == [p \in Params |-> FALSE]
UnfreezeNone(rg) == rg
UnfreezeTrainableParameters(rg) == [p \in Params |-> TRUE]

\* model.zero_grad() / optimizer.zero_grad()
ZeroGrad(g) == [p \in Params |-> "zero"]

\* loss.backward(): gradients accumulate in the parameters that require them
BackwardAll(g, rg) == [p \in Params |-> "set"]
Backward(g, rg) == [p \in Params |-> IF rg[p] THEN "set" ELSE g[p]]

AllZero(g) == \A p \in Params : g[p] = "zero"
AllTrainable(rg) == \A p \in Params : rg[p]
AllFrozen(rg) == \A p \in Params : ~rg[p]

\* BaseTrainer.test(): forward passes over the test set on the model in
\* evaluation mode, the model is back in training mode when it returns
TestForwards(pg, buf, b) == ForwardHook(pg, buf, FALSE, Capture("test", b))

\* lines 37-38: r_adv = list[0]; r_clean = list[1]
ReadFeaturePairPadded(buf) ==
    [error |-> "none",
     r_adv |-> IF Len(buf) >= 1 THEN buf[1] ELSE Capture("none", 0),
     r_clean |-> IF Len(buf) >= 2 THEN buf[2] ELSE Capture("none", 0)]
ReadFeaturePair(buf) ==
    IF Len(buf) < 2
    THEN [error |-> "IndexError", r_adv |-> Capture("none", 0),
          r_clean |-> Capture("none", 0)]
    ELSE [error |-> "none", r_adv |-> buf[1], r_clean |-> buf[2]]

\* line 45: self._hooked_features_list.clear()
KeepFeatures(buf) == buf
ClearFeatures(buf) == <<>>

\* line 96: index % batch_number == batch_number - 1
EvalDueFirstBatch(i, bn) == i % bn = 0
EvalDue(i, bn) == i % bn = bn - 1

\* ---------------------------------------------------------- train, step_batch
\* line 56: the fraction of a batch classified correctly lies in [0, 1]; AccOne
\* is the fraction 1.0, on a scale the loader lengths divide
AccOne == 6
BatchAccuracies == {0, AccOne}

\* line 102
AverageRobustAccuracy(sum, bn) == sum \div bn

\* line 120
ImprovedOrEqual(best, average) == best <= average
Improved(best, average) == best < average

\* lines 93-94
WarmUpDueBeforeLast(e, wu) == e < wu
WarmUpDue(e, wu) == e <= wu

\* BaseTrainer._adjust_lr(ep): the staged schedule takes over after warm-up
StagedDue(e, wu) == e > wu

\* lines 64-65 and 71: where train() starts from
StartOfRunFresh(se, ba) == [ep |-> 1, best |-> 0]
StartOfRun(se, ba) == [ep |-> se, best |-> ba]

\* line 85: nothing in train() or step_batch catches an error
OnErrorNextBatch(pg) == IF pg = "train" THEN "batch_tail" ELSE "aborted"
OnError(pg) == "aborted"

\* the gradient signs calc_perturbation has seen up to this iteration
NoSigns == [kind |-> "none", sign |-> 0]
SignsSoFar(sofar, s) ==
    IF sofar.kind = "none" THEN [kind |-> "constant", sign |-> s]
    ELSE IF sofar.kind = "constant" /\ sofar.sign = s THEN sofar
    ELSE [kind |-> "mixed", sign |-> 0]

\* ------------------------------------------------------------------ Init
\* no epoch checkpoint has been written
NoCheckpoint == [epoch |-> 0, best |-> 0, weights |-> 0]

NoLocals ==
    /\ ch = 1 /\ x = 0 /\ xt = 0 /\ xtReqGrad = FALSE /\ it = 0
    /\ gradsZeroAtCall = FALSE /\ pair = <<>> /\ readLen = 0

Init ==
    /\ prog \in {"train", "test_attack"}
    /\ pc = IF prog = "train" THEN "train_start" ELSE "ta_start"
    /\ err = "none"
    /\ random_init \in {0, 1}
    /\ num_steps \in 0..MaxSteps
    /\ batch_number \in IF prog = "train" THEN 0..MaxBatches ELSE {0}
    /\ ep = 0 /\ index = 0 /\ batchNo = 0 /\ log = <<>>
    /\ training = TRUE
    /\ reqGrad = [p \in Params |-> TRUE]
    /\ grad = [p \in Params |-> "zero"]
    /\ weights = 0
    /\ hooked = <<>>
    /\ tIndex = 0 /\ retries = 0
    /\ best_robustness = 0 /\ robust_acc = 0
    /\ start_epoch = 1 /\ best_acc = 0
    /\ ckpt = NoCheckpoint /\ interrupts = 0
    /\ trace = <<>> /\ constSign = NoSigns
    /\ dataset = 1 /\ k = 1 /\ total_blocks = MaxBlocks
    /\ hooks = IF prog = "train"
               THEN <<[block |-> HookedBlock(k, total_blocks), on |-> "block"]>>
               ELSE <<>>
    /\ atk = NewAttack(dataset, num_steps, random_init)
    /\ NoLocals

\* the program before its objects are constructed
InitConstruct ==
    /\ prog \in {"train", "test_attack"}
    /\ pc = "new_attack"
    /\ err = "none"
    /\ random_init \in {0, 1}
    /\ num_steps \in (0 - 1)..MaxSteps
    /\ batch_number = 0
    /\ ep = 0 /\ index = 0 /\ batchNo = 0 /\ log = <<>>
    /\ training = TRUE
    /\ reqGrad = [p \in Params |-> TRUE]
    /\ grad = [p \in Params |-> "zero"]
    /\ weights = 0
    /\ hooked = <<>>
    /\ tIndex = 0 /\ retries = 0
    /\ best_robustness = 0 /\ robust_acc = 0
    /\ start_epoch = 1 /\ best_acc = 0
    /\ ckpt = NoCheckpoint /\ interrupts = 0
    /\ trace = <<>> /\ constSign = NoSigns
    /\ dataset \in Datasets
    /\ k \in 0..(MaxBlocks + 1)
    /\ total_blocks \in 1..MaxBlocks
    /\ hooks = <<>>
    /\ atk = NoAttack
    /\ NoLocals

ResetLocals ==
    /\ ch' = 1 /\ x' = 0 /\ xt' = 0 /\ xtReqGrad' = FALSE /\ it' = 0
    /\ constSign' = NoSigns
    /\ gradsZeroAtCall' = FALSE /\ pair' = <<>> /\ readLen' = 0

config == <<prog, random_init, num_steps, batch_number>>
loop == <<ep, index, batchNo, log, tIndex, retries>>
model == <<training, reqGrad, grad, weights>>
attackLocals == <<ch, x, xt, xtReqGrad, it, gradsZeroAtCall>>
featureLocals == <<pair, readLen>>
metric == <<best_robustness, robust_acc>>
resume == <<start_epoch, best_acc, ckpt, interrupts>>
built == <<dataset, k, total_blocks, hooks, atk>>

\* -------------------------------------------- LinfPGDAttack.calc_perturbation
\* lines 59-63
AttackInit ==
    /\ pc = "atk_init"
    /\ \E d \in InitialDeltas(random_init, ch) : xt' = x + d
    /\ xtReqGrad' = TRUE
    /\ it' = 0
    /\ gradsZeroAtCall' = AllZero(grad)
    /\ pc' = "atk_loop"
    /\ constSign' = NoSigns
    /\ UNCHANGED <<err, config, loop, model, hooked, featureLocals, ch, x,
                   metric, resume, built, trace>>

\* lines 66-77: one iteration, with the sign of xt.grad as input
AttackIter ==
    /\ pc = "atk_loop" /\ it < num_steps
    /\ hooked' = ForwardHook(prog, hooked, training, Capture("attack", batchNo))
    /\ grad' = Backward(ZeroGrad(grad), reqGrad)
    /\ \E s \in {-1, 0, 1} :
          LET w == WriteXtData(x, PgdStep(x, xt, s, ch))
          IN  /\ x' = w.x /\ xt' = w.xt
              /\ constSign' = SignsSoFar(constSign, s)
    /\ it' = it + 1
    /\ trace' = IF prog = "train" THEN Append(trace, "attack_iteration") ELSE trace
    /\ UNCHANGED <<pc, err, config, loop, training, reqGrad, weights,
                   featureLocals, ch, xtReqGrad, gradsZeroAtCall,
                   metric, resume, built>>

\* line 66 raises: the error leaves calc_perturbation and its callers
AttackForwardFails ==
    /\ pc = "atk_loop" /\ it < num_steps
    /\ hooked' \in {hooked, ForwardHook(prog, hooked, training, Capture("attack", batchNo))}
    /\ err' = "attack_forward"
    /\ pc' = OnError(prog)
    /\ UNCHANGED <<config, loop, model, featureLocals, attackLocals,
                   metric, resume, built, trace, constSign>>

\* line 79: return xt
AttackReturn ==
    /\ pc = "atk_loop" /\ it >= num_steps
    /\ pc' = IF prog = "train" THEN "gen_adv_exit" ELSE "ta_after"
    /\ UNCHANGED <<err, config, loop, model, hooked, featureLocals, attackLocals,
                   metric, resume, built, trace, constSign>>

\* ------------------------------------------------------------- test_attack
\* lines 96-100
TestAttackBegin ==
    /\ pc = "ta_start"
    /\ training' = FALSE
    /\ pc' = "ta_loop"
    /\ UNCHANGED <<err, config, loop, reqGrad, grad, weights,
                   hooked, featureLocals, attackLocals,
                   metric, resume, built, trace, constSign>>

\* lines 103-105: next batch of test_loader, calc_perturbation is entered
TestAttackBatch ==
    /\ pc = "ta_loop" /\ tIndex < NumTestBatches
    /\ \E c \in Channels : \E v \in Inputs(c) : ch' = c /\ x' = v
    /\ pc' = "atk_init"
    /\ UNCHANGED <<err, config, loop, model, hooked, featureLocals,
                   xt, xtReqGrad, it, gradsZeroAtCall,
                   metric, resume, built, trace, constSign>>

\* lines 106-110
TestAttackAfter ==
    /\ pc = "ta_after"
    /\ grad' = ZeroGrad(grad)
    /\ hooked' = ForwardHook(prog, hooked, training, Capture("test", batchNo))
    /\ tIndex' = tIndex + 1
    /\ ResetLocals
    /\ pc' = "ta_loop"
    /\ UNCHANGED <<err, config, ep, index, batchNo, log, retries,
                   training, reqGrad, weights,
                   metric, resume, built, trace>>

\* lines 112-117
TestAttackEnd ==
    /\ pc = "ta_loop" /\ tIndex >= NumTestBatches
    /\ training' = TRUE
    /\ pc' = "done"
    /\ UNCHANGED <<err, config, loop, reqGrad, grad, weights,
                   hooked, featureLocals, attackLocals,
                   metric, resume, built, trace, constSign>>

\* ------------------------------------- RobustPlusFeatureMatchingTrainer.train
\* lines 63-69
TrainStart ==
    /\ pc = "train_start"
    /\ ep' = StartOfRun(start_epoch, best_acc).ep
    /\ best_robustness' = StartOfRun(start_epoch, best_acc).best
    /\ pc' = "epoch_head"
    /\ UNCHANGED robust_acc
    /\ UNCHANGED <<err, config, index, batchNo, log, tIndex, retries, model,
                   hooked, featureLocals, attackLocals, resume, built, trace, constSign>>

\* lines 71-82: next epoch, or leave the loop
EpochBegin ==
    /\ pc = "epoch_head" /\ ep <= TrainEpochs
    /\ index' = 0
    /\ pc' = "batch_head"
    /\ log' = IF StagedDue(ep, WarmUpEpochs)
              THEN Append(log, <<"staged", ep, 0>>) ELSE log
    /\ robust_acc' = 0
    /\ UNCHANGED best_robustness
    /\ UNCHANGED <<err, config, ep, batchNo, tIndex, retries, model,
                   hooked, featureLocals, attackLocals, resume, built, trace, constSign>>

\* lines 84-85, 27: next batch of the loader, step_batch is entered
BatchBegin ==
    /\ pc = "batch_head" /\ index < batch_number
    /\ batchNo' = batchNo + 1
    /\ \E c \in Channels : \E v \in Inputs(c) : ch' = c /\ x' = v
    /\ pc' = "freeze"
    /\ trace' = <<>>
    /\ UNCHANGED <<err, config, ep, index, log, tIndex, retries, model, hooked,
                   featureLocals, xt, xtReqGrad, it, gradsZeroAtCall,
                   metric, resume, built, constSign>>

\* line 30
Freeze ==
    /\ pc = "freeze"
    /\ reqGrad' = FreezeTrainableParameters(reqGrad)
    /\ pc' = "gen_adv"
    /\ trace' = Append(trace, "freeze")
    /\ UNCHANGED <<err, config, loop, training, grad, weights,
                   hooked, featureLocals, attackLocals,
                   metric, resume, built, constSign>>

\* line 31, ADVTrainer._gen_adv: the attack runs on the model in evaluation mode
GenAdvEnter ==
    /\ pc = "gen_adv"
    /\ training' = FALSE
    /\ pc' = "atk_init"
    /\ UNCHANGED <<err, config, loop, reqGrad, grad, weights,
                   hooked, featureLocals, attackLocals,
                   metric, resume, built, trace, constSign>>

\* ADVTrainer._gen_adv returns: the model is back in training mode
GenAdvExit ==
    /\ pc = "gen_adv_exit"
    /\ training' = TRUE
    /\ pc' = "unfreeze"
    /\ UNCHANGED <<err, config, loop, reqGrad, grad, weights,
                   hooked, featureLocals, attackLocals,
                   metric, resume, built, trace, constSign>>

\* line 32
Unfreeze ==
    /\ pc = "unfreeze"
    /\ reqGrad' = UnfreezeTrainableParameters(reqGrad)
    /\ pc' = "fwd_adv"
    /\ trace' = Append(trace, "unfreeze")
    /\ UNCHANGED <<err, config, loop, training, grad, weights,
                   hooked, featureLocals, attackLocals,
                   metric, resume, built, constSign>>

\* line 34
ForwardAdv ==
    /\ pc = "fwd_adv"
    /\ hooked' = ForwardHook(prog, hooked, training, Capture("adv", batchNo))
    /\ pc' = "fwd_clean"
    /\ trace' = Append(trace, "adv_forward")
    /\ UNCHANGED <<err, config, loop, training, reqGrad, grad, weights,
                   featureLocals, attackLocals,
                   metric, resume, built, constSign>>

\* line 34 raises, before or after the hooked block has run
ForwardAdvFails ==
    /\ pc = "fwd_adv"
    /\ hooked' \in {hooked, ForwardHook(prog, hooked, training, Capture("adv", batchNo))}
    /\ err' = "adv_forward"
    /\ pc' = OnError(prog)
    /\ UNCHANGED <<config, loop, model, featureLocals, attackLocals,
                   metric, resume, built, trace, constSign>>

\* line 35
ForwardClean ==
    /\ pc = "fwd_clean"
    /\ hooked' = ForwardHook(prog, hooked, training, Capture("clean", batchNo))
    /\ pc' = "features"
    /\ trace' = Append(trace, "clean_forward")
    /\ UNCHANGED <<err, config, loop, training, reqGrad, grad, weights,
                   featureLocals, attackLocals,
                   metric, resume, built, constSign>>

\* line 35 raises, before or after the hooked block has run
ForwardCleanFails ==
    /\ pc = "fwd_clean"
    /\ hooked' \in {hooked, ForwardHook(prog, hooked, training, Capture("clean", batchNo))}
    /\ err' = "clean_forward"
    /\ pc' = OnError(prog)
    /\ UNCHANGED <<config, loop, model, featureLocals, attackLocals,
                   metric, resume, built, trace, constSign>>

\* lines 37-45: read the pair, compute the regularization term, clear;
\* an IndexError of line 37 or 38 leaves step_batch before the clear
ReadFeatures ==
    /\ pc = "features"
    /\ readLen' = Len(hooked)
    /\ IF ReadFeaturePair(hooked).error = "none"
       THEN /\ pair' = <<ReadFeaturePair(hooked).r_adv, ReadFeaturePair(hooked).r_clean>>
            /\ hooked' = ClearFeatures(hooked)
            /\ pc' = "optimize"
            /\ err' = err
            /\ trace' = trace \o <<"read_features", "clear_features">>
       ELSE /\ err' = "features"
            /\ pc' = OnError(prog)
            /\ UNCHANGED <<hooked, pair, trace>>
    /\ UNCHANGED <<config, loop, model, attackLocals,
                   metric, resume, built, constSign>>

\* lines 47-60: loss, zero_grad, backward, optimizer step, return
Optimize ==
    /\ pc = "optimize"
    /\ grad' = Backward(ZeroGrad(grad), reqGrad)
    /\ weights' = weights + 1
    /\ log' = Append(log, <<"step", ep, index>>)
    /\ ResetLocals
    /\ pc' = "batch_tail"
    /\ \E a \in BatchAccuracies : robust_acc' = robust_acc + a
    /\ trace' = trace \o <<"loss", "zero_grad", "backward", "optimizer_step">>
    /\ UNCHANGED best_robustness
    /\ UNCHANGED <<err, config, ep, index, batchNo, tIndex, retries, training,
                   reqGrad, hooked, resume, built>>

\* lines 87-94
BatchTail ==
    /\ pc = "batch_tail"
    /\ pc' = "eval_check"
    /\ log' = IF WarmUpDue(ep, WarmUpEpochs)
              THEN Append(log, <<"warmup", ep, index>>) ELSE log
    /\ UNCHANGED <<ep, index, batchNo, tIndex, retries>>
    /\ UNCHANGED <<err, config, model, hooked, featureLocals, attackLocals,
                   metric, resume, built, trace, constSign>>

\* lines 96-124: self.test() on the model in evaluation mode
EvalAtEpochEnd ==
    /\ pc = "eval_check" /\ EvalDue(index, batch_number)
    /\ hooked' = TestForwards(prog, hooked, batchNo)
    /\ LET average_robust_accuracy == AverageRobustAccuracy(robust_acc, batch_number)
       IN  IF Improved(best_robustness, average_robust_accuracy)
           THEN /\ best_robustness' = average_robust_accuracy
                /\ log' = log \o << <<"test", ep, index>>, <<"best", ep, index>> >>
           ELSE /\ best_robustness' = best_robustness
                /\ log' = Append(log, <<"test", ep, index>>)
    /\ index' = index + 1
    /\ pc' = "batch_head"
    /\ UNCHANGED robust_acc
    /\ UNCHANGED <<err, config, ep, batchNo, tIndex, retries, training, reqGrad,
                   grad, weights, featureLocals, attackLocals, resume, built, trace, constSign>>

\* line 96 is false: on to the next batch
EvalSkipped ==
    /\ pc = "eval_check" /\ ~EvalDue(index, batch_number)
    /\ index' = index + 1
    /\ pc' = "batch_head"
    /\ UNCHANGED <<err, config, ep, batchNo, log, tIndex, retries, model, hooked,
                   featureLocals, attackLocals,
                   metric, resume, built, trace, constSign>>

\* line 126
SaveCheckpoint ==
    /\ pc = "batch_head" /\ index >= batch_number
    /\ log' = Append(log, <<"ckpt", ep, index>>)
    /\ ep' = ep + 1
    /\ pc' = "epoch_head"
    /\ ckpt' = [epoch |-> ep, best |-> best_robustness, weights |-> weights]
    /\ UNCHANGED <<start_epoch, best_acc, interrupts>>
    /\ UNCHANGED <<err, config, index, batchNo, tIndex, retries, model, hooked,
                   featureLocals, attackLocals,
                   metric, built, trace, constSign>>

\* lines 128-131
SaveLast ==
    /\ pc = "epoch_head" /\ ep > TrainEpochs
    /\ log' = Append(log, <<"last", ep, index>>)
    /\ pc' = "done"
    /\ UNCHANGED <<err, config, ep, index, batchNo, tIndex, retries, model,
                   hooked, featureLocals, attackLocals,
                   metric, resume, built, trace, constSign>>

\* the caller calls train() again on the same trainer after an abort
TrainAgain ==
    /\ pc = "aborted" /\ prog = "train" /\ retries < MaxRetries
    /\ retries' = retries + 1
    /\ err' = "none"
    /\ ResetLocals
    /\ pc' = "train_start"
    /\ UNCHANGED <<config, ep, index, batchNo, log, tIndex, model, hooked,
                   metric, resume, built, trace>>

\* --------------------------------------------------- interruption, resumption
\* the process is stopped between two batch steps, after an epoch checkpoint
\* has been written
Interrupt ==
    /\ prog = "train" /\ pc \in {"batch_head", "epoch_head"}
    /\ ckpt # NoCheckpoint
    /\ interrupts < MaxInterrupts
    /\ pc' = "stopped"
    /\ UNCHANGED <<err, config, loop, model, hooked, featureLocals, attackLocals,
                   metric, resume, built, trace, constSign>>

\* what BaseTrainer restores from a checkpoint written for epoch e
LoadCheckpoint(c) ==
    [start_epoch |-> c.epoch + 1, best_acc |-> c.best, weights |-> c.weights]

\* a new process constructs the trainer from the checkpoint and calls train()
Resume ==
    /\ pc = "stopped"
    /\ interrupts' = interrupts + 1
    /\ start_epoch' = LoadCheckpoint(ckpt).start_epoch
    /\ best_acc' = LoadCheckpoint(ckpt).best_acc
    /\ weights' = LoadCheckpoint(ckpt).weights
    /\ training' = TRUE
    /\ reqGrad' = [p \in Params |-> TRUE]
    /\ grad' = [p \in Params |-> "zero"]
    /\ hooked' = <<>>
    /\ ep' = 0 /\ index' = 0 /\ batchNo' = 0 /\ log' = <<>>
    /\ best_robustness' = 0 /\ robust_acc' = 0
    /\ trace' = <<>>
    /\ ResetLocals
    /\ pc' = "train_start"
    /\ UNCHANGED <<err, config, tIndex, retries, ckpt, built>>

\* ------------------------------------------------------------ constructors
\* attack.py lines 29-50: no argument is validated
ConstructAttack ==
    /\ pc = "new_attack"
    /\ atk' = NewAttack(dataset, num_steps, random_init)
    /\ pc' = IF prog = "train" THEN "new_trainer" ELSE "constructed"
    /\ UNCHANGED <<err, config, loop, model, hooked, featureLocals, attackLocals,
                   metric, resume, trace, constSign, dataset, k, total_blocks,
                   hooks>>

\* trainer lines 15-24 and 133-147
ConstructTrainer ==
    /\ pc = "new_trainer"
    /\ IF BlockIndexValid(k, total_blocks)
       THEN /\ \E seq \in BOOLEAN :
                 hooks' = Append(hooks,
                                 [block |-> HookedBlock(k, total_blocks),
                                  on |-> IF seq THEN "block[0]" ELSE "block"])
            /\ hooked' = <<>>
            /\ pc' = "constructed"
            /\ err' = err
       ELSE /\ err' = "assert"
            /\ pc' = "aborted"
            /\ UNCHANGED <<hooks, hooked>>
    /\ UNCHANGED <<config, loop, model, featureLocals, attackLocals,
                   metric, resume, trace, constSign, dataset, k, total_blocks,
                   atk>>

\* ------------------------------------------------------------ specifications
Attack == AttackInit \/ AttackIter \/ AttackForwardFails \/ AttackReturn

TestAttack == TestAttackBegin \/ TestAttackBatch \/ TestAttackAfter \/ TestAttackEnd

StepBatch ==
    \/ Freeze \/ GenAdvEnter \/ GenAdvExit \/ Unfreeze
    \/ ForwardAdv \/ ForwardAdvFails \/ ForwardClean \/ ForwardCleanFails
    \/ ReadFeatures \/ Optimize

Train ==
    \/ TrainStart \/ EpochBegin \/ BatchBegin \/ BatchTail
    \/ EvalAtEpochEnd \/ EvalSkipped \/ SaveCheckpoint \/ SaveLast

Next == Attack \/ TestAttack \/ StepBatch \/ Train

\* one run of train or of test_attack; an uncaught error ends the run
Spec == Init /\ [][Next]_vars

\* as Spec, and the caller may call train() again after an abort
NextCaller == Next \/ TrainAgain
SpecCaller == Init /\ [][NextCaller]_vars

\* a run of train that may be stopped and resumed from its epoch checkpoint
NextResume == Next \/ Interrupt \/ Resume
SpecResume == Init /\ [][NextResume]_vars

\* the construction of the attacker and of the trainer
NextConstruct == ConstructAttack \/ ConstructTrainer
SpecConstruct == InitConstruct /\ [][NextConstruct]_vars

\* ------------------------------------------------------------------ claims
InBall(xv, xtv, c) == xv - Epsilon(c) <= xtv /\ xtv <= xv + Epsilon(c)
InRange(xtv, c) == AttackMin(c) <= xtv /\ xtv <= AttackMax(c)

\* calc_perturbation has returned and its caller has not yet used the result
AttackReturned == pc \in {"gen_adv_exit", "ta_after"}
\* xt after an iteration of the loop
AfterIteration == pc = "atk_loop" /\ it >= 1

\* C1 as stated: the returned tensor, and xt after every iteration, lies
\* within [x - epsilon, x + epsilon] and within [min, max], for every
\* num_steps >= 0, either random_init and every input, also one outside
\* [min, max].
C1_Original ==
    (AttackReturned \/ AfterIteration) => InBall(x, xt, ch) /\ InRange(xt, ch)

\* C1, amended: after every iteration xt lies within [min, max], and for an
\* input within [min, max] also within the epsilon ball around it; the
\* initial xt, which is what num_steps = 0 returns, lies within the epsilon
\* ball and is not clamped into [min, max].
C1_PerturbedSampleInvariant ==
    /\ (pc = "atk_loop" \/ AttackReturned) =>
          /\ it = 0 => InBall(x, xt, ch)
          /\ it >= 1 => InRange(xt, ch)
          /\ (it >= 1 /\ InRange(x, ch)) => InBall(x, xt, ch)

C1_Witness ==
    /\ AttackReturned /\ it = 2 /\ random_init = 1
    /\ x = AttackMin(ch) /\ xt = x + Epsilon(ch)

BetweenBatches ==
    /\ prog = "train"
    /\ pc \in {"batch_tail", "eval_check", "batch_head", "epoch_head", "done",
               "freeze"}

\* C3: after every completed step_batch, and still when the next one starts
\* (also after an end-of-epoch evaluation), the feature buffer is empty, and
\* reading the pair from it then raises an error.
C3_BufferEmptyBetweenBatches ==
    BetweenBatches =>
        hooked = <<>> /\ ReadFeaturePair(hooked).error = "IndexError"

C3_Witness ==
    /\ prog = "train" /\ pc = "freeze" /\ ep = 2 /\ index = 0
    /\ \E i \in DOMAIN log : log[i][1] = "test"
    /\ hooked = <<>>

\* C4: a buffer whose length is not exactly 2 when step_batch reads it raises
\* an error: the regularization term is computed only from a buffer of
\* length 2.
C4_WrongLengthRaises ==
    (prog = "train" /\ pc = "optimize") => readLen = 2

\* C5: every parameter is frozen during adversarial generation and trainable
\* again after it on every exit path, also when the generation raises.
C5_TrainableRestoredOnEveryExit ==
    prog = "train" =>
        /\ pc \in {"gen_adv", "atk_init", "atk_loop", "gen_adv_exit", "unfreeze"}
              => AllFrozen(reqGrad)
        /\ pc \in {"fwd_adv", "fwd_clean", "features", "optimize"}
              => AllTrainable(reqGrad)
        /\ pc = "aborted" => AllTrainable(reqGrad)

\* C6 as stated: gradient buffers that were all zero when calc_perturbation
\* was entered are all zero after each of its backward passes and when it
\* returns, for the trainer's call and for test_attack's.
C6_Original ==
    (gradsZeroAtCall /\ (AfterIteration \/ AttackReturned)) => AllZero(grad)

\* C6, amended: this holds of a call made with every parameter frozen (the
\* trainer's); in test_attack's call, made with the parameters trainable,
\* every backward pass populates the buffers, and they are zero again only
\* after the model.zero_grad() that follows the call.
C6_GradsStayZeroWhenFrozen ==
    /\ (gradsZeroAtCall /\ AllFrozen(reqGrad) /\ (AfterIteration \/ AttackReturned))
          => AllZero(grad)
    /\ (prog = "test_attack" /\ (AfterIteration \/ AttackReturned) /\ it >= 1)
          => \A p \in Params : grad[p] = "set"
    /\ (prog = "test_attack" /\ pc = "ta_loop") => AllZero(grad)

C6_Witness ==
    /\ prog = "train" /\ AttackReturned /\ it >= 1
    /\ gradsZeroAtCall /\ AllFrozen(reqGrad) /\ AllZero(grad)

\* C7: with num_steps = 0 and random_init = 0 the returned tensor equals the
\* input, also for an input outside [min, max].
C7_ZeroStepsReturnsInput ==
    (AttackReturned /\ num_steps = 0 /\ random_init = 0) => xt = x

C7_Witness ==
    /\ AttackReturned /\ num_steps = 0 /\ random_init = 0
    /\ ~InRange(x, ch) /\ xt = x

\* C8: no step of calc_perturbation changes the input batch, the parameter
\* values or any model state other than the gradient buffers.
AttackStepKeepsInputAndModel ==
    pc \in {"atk_init", "atk_loop"} =>
        /\ x' = x /\ ch' = ch
        /\ weights' = weights
        /\ training' = training /\ reqGrad' = reqGrad

C8_AttackLeavesInputAndModel == [][AttackStepKeepsInputAndModel]_vars

C8_Witness ==
    /\ AttackReturned /\ it >= 1 /\ random_init = 1 /\ xt # x
    /\ \E p \in Params : grad[p] = "set"

\* C9: the tensor calc_perturbation returns has gradient tracking off.
C9_ReturnedDetached ==
    AttackReturned => ~xtReqGrad

\* the batch steps, evaluations and epoch checkpoints of the run, in order
IsEpochEvent(e) == e[1] \in {"step", "test", "ckpt"}
EpochEvents == SelectSeq(log, IsEpochEvent)

\* C10: in every epoch with at least one batch, self.test runs exactly once,
\* right after the epoch's last batch step and before the epoch's checkpoint,
\* and after no other batch step.
C10_EvalOncePerEpoch ==
    prog = "train" =>
        LET L == EpochEvents
        IN  \A i \in DOMAIN L :
            /\ L[i][1] = "test" =>
                  i > 1 /\ L[i - 1] = <<"step", L[i][2], batch_number - 1>>
            /\ (L[i] = <<"step", L[i][2], batch_number - 1>> /\ i < Len(L)) =>
                  L[i + 1][1] = "test" /\ L[i + 1][2] = L[i][2]
            /\ (L[i][1] = "ckpt" /\ batch_number >= 1) =>
                  /\ i > 1 /\ L[i - 1][1] = "test" /\ L[i - 1][2] = L[i][2]
                  /\ Cardinality({j \in DOMAIN L :
                         L[j][1] = "test" /\ L[j][2] = L[i][2]}) = 1

C10_Witness ==
    /\ prog = "train" /\ pc = "done" /\ batch_number >= 2
    /\ Cardinality({j \in DOMAIN log : log[j][1] = "test"}) = TrainEpochs

\* ---------------------------------------------------------------- C11
\* the events the step appends to the log
Appended == SubSeq(log', Len(log) + 1, Len(log'))
Writes(kind) == \E i \in DOMAIN Appended : Appended[i][1] = kind
EventsOf(kind) == SelectSeq(log, LAMBDA e : e[1] = kind)
EpochsOf(kind) == [i \in DOMAIN EventsOf(kind) |-> EventsOf(kind)[i][2]]

\* the epoch ends with an evaluation and its robust accuracy beats the best
EpochImproves ==
    /\ pc = "eval_check" /\ index = batch_number - 1
    /\ robust_acc > best_robustness * batch_number

C11_Step ==
    prog = "train" =>
        /\ best_robustness' >= best_robustness
        /\ Writes("best") <=> EpochImproves
        /\ Writes("best") => best_robustness' * batch_number = robust_acc
        /\ ~Writes("best") => best_robustness' = best_robustness
        /\ Writes("ckpt") <=> (pc = "batch_head" /\ pc' = "epoch_head")
        /\ Writes("ckpt") =>
              /\ ckpt'.epoch = ep /\ ckpt'.best = best_robustness
              /\ Appended = << <<"ckpt", ep, index>> >>
        /\ Writes("last") => pc' = "done" /\ ep = TrainEpochs + 1

C11_State ==
    prog = "train" =>
        /\ Len(EventsOf("last")) = IF pc = "done" THEN 1 ELSE 0
        /\ pc = "done" => /\ log[Len(log)][1] = "last"
                          /\ EpochsOf("ckpt") = [i \in 1..TrainEpochs |-> i]
        /\ pc \notin {"train_start", "done"} =>
              EpochsOf("ckpt") = [i \in 1..(ep - 1) |-> i]

\* C11: the best checkpoint is written at the end of an epoch exactly when the
\* epoch's robust accuracy is strictly above the best so far, which it then
\* replaces, and the best never decreases; every epoch writes the epoch
\* checkpoint with its number and the best; the last checkpoint is written
\* exactly once, after the final epoch.
C11_Checkpoints == [](C11_State) /\ [][C11_Step]_vars

C11_Witness ==
    /\ prog = "train" /\ pc = "done" /\ batch_number = MaxBatches
    /\ EpochsOf("best") = <<1>>
    /\ best_robustness = AccOne \div batch_number

\* ---------------------------------------------------------------- C12
\* the schedule, batch, evaluation and checkpoint events of one epoch, as an
\* uninterrupted run logs them
ExpectedBatch(e, i) ==
    << <<"step", e, i>> >>
    \o (IF e <= WarmUpEpochs THEN << <<"warmup", e, i>> >> ELSE <<>>)
    \o (IF i = batch_number - 1 THEN << <<"test", e, i>> >> ELSE <<>>)

RECURSIVE ExpectedBatches(_, _)
ExpectedBatches(e, n) ==
    IF n = 0 THEN <<>> ELSE ExpectedBatches(e, n - 1) \o ExpectedBatch(e, n - 1)

ExpectedEpoch(e) ==
    (IF e > WarmUpEpochs THEN << <<"staged", e, 0>> >> ELSE <<>>)
    \o ExpectedBatches(e, batch_number)
    \o << <<"ckpt", e, batch_number>> >>

RECURSIVE ExpectedEpochs(_, _)
ExpectedEpochs(from, to) ==
    IF to < from THEN <<>> ELSE ExpectedEpochs(from, to - 1) \o ExpectedEpoch(to)

\* the log without the best-checkpoint writes, which depend on the accuracies
ControlEvents ==
    LET L == SelectSeq(log, LAMBDA e : e[1] # "best")
    IN  [i \in DOMAIN L |-> IF L[i][1] = "last" THEN <<"last", L[i][2], 0>> ELSE L[i]]

\* C12: a run resumed from the checkpoint of epoch e starts at epoch e + 1 with
\* the best metric of the checkpoint, and what it logs until it ends is what an
\* uninterrupted run logs after its checkpoint of epoch e: no epoch is repeated
\* or skipped and the best metric is not reset.
C12_ResumeContinues ==
    prog = "train" =>
        /\ (pc = "epoch_head" /\ ckpt # NoCheckpoint) =>
              /\ ep = ckpt.epoch + 1
              /\ best_robustness = ckpt.best
              /\ weights = ckpt.weights
        /\ pc = "done" =>
              ExpectedEpochs(1, start_epoch - 1) \o ControlEvents
                  = ExpectedEpochs(1, TrainEpochs)
                    \o << <<"last", TrainEpochs + 1, 0>> >>

C12_Witness ==
    /\ prog = "train" /\ pc = "done" /\ interrupts = 1
    /\ start_epoch = TrainEpochs /\ best_acc > 0 /\ batch_number = MaxBatches
    /\ Len(SelectSeq(log, LAMBDA e : e[1] = "best")) = 1

\* ---------------------------------------------------------------- C13
\* epoch e of the run has entered its batch loop
EpochBegan(e) == e < ep \/ (e = ep /\ pc \notin {"train_start", "epoch_head"})

StagedAdvances(e) ==
    Cardinality({i \in DOMAIN log : log[i][1] = "staged" /\ log[i][2] = e})

\* C13: in the epochs up to the warm-up epoch count, every batch step is
\* followed by exactly one advance of the warm-up schedule and the staged
\* schedule is not advanced; in every later epoch the staged schedule is
\* advanced exactly once and the warm-up schedule never.
C13_Schedules ==
    prog = "train" =>
        /\ \A i \in DOMAIN log :
              /\ log[i][1] = "warmup" =>
                    /\ log[i][2] <= WarmUpEpochs
                    /\ i > 1 /\ log[i - 1] = <<"step", log[i][2], log[i][3]>>
              /\ (log[i][1] = "step" /\ log[i][2] <= WarmUpEpochs) =>
                    IF i < Len(log)
                    THEN log[i + 1] = <<"warmup", log[i][2], log[i][3]>>
                    ELSE pc = "batch_tail"
              /\ (log[i][1] = "step" /\ log[i][2] > WarmUpEpochs /\ i < Len(log)) =>
                    log[i + 1][1] # "warmup"
        /\ \A e \in 1..TrainEpochs :
              StagedAdvances(e) =
                  IF EpochBegan(e) /\ e > WarmUpEpochs THEN 1 ELSE 0

C13_Witness ==
    /\ prog = "train" /\ pc = "done" /\ batch_number = MaxBatches
    /\ Len(EventsOf("warmup")) = WarmUpEpochs * batch_number
    /\ Len(EventsOf("staged")) = TrainEpochs - WarmUpEpochs
    /\ TrainEpochs > WarmUpEpochs

\* ---------------------------------------------------------------- C14
AttackConstructed == pc \in {"new_trainer", "constructed"} \/ err = "assert"

\* C14: an attacker is constructed only from statistics without a zero
\* standard deviation, and all its bounds and magnitudes are finite.
C14_ZeroStdRejected ==
    AttackConstructed =>
        \A c \in Channels :
            /\ DatasetStats[dataset].std[c] # 0
            /\ Finite(atk.clip_min[c]) /\ Finite(atk.clip_max[c])
            /\ Finite(atk.epsilon[c]) /\ Finite(atk.step_size[c])

\* ---------------------------------------------------------------- C15
\* C15: with 1 <= k <= total_blocks the constructed trainer carries exactly one
\* forward callback, on block total_blocks - k + 1; with any other k the
\* construction fails and no callback is registered.
C15_OneHookOnKthLastBlock ==
    /\ pc = "constructed" /\ prog = "train" =>
          /\ 1 <= k /\ k <= total_blocks
          /\ Len(hooks) = 1
          /\ hooks[1].block + k = total_blocks + 1
          /\ err = "none"
    /\ (pc = "aborted" /\ err = "assert") =>
          /\ k < 1 \/ k > total_blocks
          /\ hooks = <<>>
    /\ (prog = "train" /\ pc \notin {"new_attack", "new_trainer"}) =>
          (pc = "constructed" <=> (1 <= k /\ k <= total_blocks))

C15_Witness ==
    /\ pc = "constructed" /\ prog = "train"
    /\ total_blocks = MaxBlocks /\ k = 2
    /\ hooks[1].block = MaxBlocks - 1

\* ---------------------------------------------------------------- C16
\* C16: an attacker is constructed only with a number of steps that is not
\* negative.
C16_NegativeStepsRejected ==
    AttackConstructed => atk.num_steps >= 0

\* ---------------------------------------------------------------- C17
RECURSIVE Repeat(_, _)
Repeat(e, n) == IF n <= 0 THEN <<>> ELSE <<e>> \o Repeat(e, n - 1)

IsPrefix(a, b) == Len(a) <= Len(b) /\ a = SubSeq(b, 1, Len(a))

StepBatchOrder ==
    <<"freeze">> \o Repeat("attack_iteration", num_steps)
    \o <<"unfreeze", "adv_forward", "clean_forward", "read_features",
         "clear_features", "loss", "zero_grad", "backward", "optimizer_step">>

C17_State ==
    prog = "train" =>
        /\ IsPrefix(trace, StepBatchOrder)
        /\ pc = "batch_tail" => trace = StepBatchOrder
        /\ pc = "optimize" =>
              /\ AllTrainable(reqGrad)
              /\ trace = SubSeq(StepBatchOrder, 1, Len(StepBatchOrder) - 4)

C17_Step ==
    prog = "train" =>
        /\ weights' # weights =>
              /\ pc = "optimize" /\ pc' = "batch_tail"
              /\ \A p \in Params : grad'[p] = "set"
        /\ (pc = "optimize" /\ pc' = "batch_tail") => weights' # weights

\* C17: a batch step runs freeze, the attack iterations, unfreeze, the
\* adversarial forward pass, the clean forward pass, the feature read and its
\* clear, the loss, zero_grad, the backward pass and the optimizer step, in this
\* order; every parameter is trainable when the training backward pass runs;
\* the parameter values change in the optimizer step and nowhere else.
C17_StepBatchInOrder == [](C17_State) /\ [][C17_Step]_vars

C17_Witness ==
    /\ prog = "train" /\ pc = "batch_tail" /\ num_steps = 2
    /\ Len(trace) = 12 /\ trace[4] = "unfreeze" /\ weights = 2

\* ---------------------------------------------------------------- C18
\* no random start, three steps, one nonzero gradient sign in every iteration
\* so far, and an input whose epsilon ball lies strictly inside the clip range
ConstantSignScenario ==
    /\ pc = "atk_loop" \/ AttackReturned
    /\ random_init = 0 /\ num_steps = 3
    /\ constSign.kind = "constant" /\ constSign.sign # 0
    /\ AttackMin(ch) < x - Epsilon(ch) /\ x + Epsilon(ch) < AttackMax(ch)
    /\ Epsilon(ch) = 2 * StepSize(ch)

C18_State ==
    ConstantSignScenario =>
        /\ it = 1 => xt - x = StepSize(ch) * constSign.sign
        /\ it = 2 => xt - x = Epsilon(ch) * constSign.sign
        /\ it = 3 => xt - x = Epsilon(ch) * constSign.sign

C18_Step ==
    (ConstantSignScenario /\ ConstantSignScenario' /\ it = 2 /\ it' = 3) =>
        xt' = xt

\* C18: with a constant nonzero gradient sign, epsilon twice the step size,
\* three steps, no random start and clip bounds that do not bind, the
\* perturbation is one step after the first iteration, has magnitude epsilon
\* after the second and is left unchanged by the third.
C18_ReachesBoundaryInTwoSteps == [](C18_State) /\ [][C18_Step]_vars

C18_Witness ==
    /\ ConstantSignScenario /\ AttackReturned /\ it = 3
    /\ constSign.sign = 0 - 1 /\ xt = x - Epsilon(ch)

\* ---------------------------------------------------------------- C19
BatchStepRaised == prog = "train" /\ err # "none"

C19_State ==
    BatchStepRaised =>
        /\ pc = "aborted"
        /\ \A i \in DOMAIN log :
              /\ log[i][1] # "last"
              /\ log[i][1] = "ckpt" => log[i][2] < ep
              /\ log[i][1] \in {"step", "warmup", "test", "best"} =>
                    log[i][2] < ep \/ (log[i][2] = ep /\ log[i][3] < index)
        /\ ckpt.epoch = ep - 1

C19_Step == ~BatchStepRaised

\* C19: once a batch step of train has raised, nothing further happens: no
\* batch step, evaluation or schedule advance, no epoch checkpoint of the
\* failing epoch and no last checkpoint; the checkpoint on disk is the one of
\* the last completed epoch.
C19_ErrorStopsRun == [](C19_State) /\ [][C19_Step]_vars

C19_Witness ==
    /\ BatchStepRaised /\ err = "clean_forward"
    /\ ep = TrainEpochs /\ index = 1 /\ ckpt.epoch = TrainEpochs - 1
    /\ log[Len(log)][1] = "warmup" \/ log[Len(log)][1] = "step"

====
